---- MODULE Spec2Model ----
(***************************************************************************)
(* A model of cbfind.py: indexing of a bibliography (create_index), the    *)
(* acronym heuristic (acronyms_from_ID), result rendering (search_index)   *)
(* and the command line driver (main).                                     *)
(*                                                                         *)
(* Text is modelled as a sequence of one-character strings, so that the    *)
(* character-level conversions of the program (translate, lstrip, split,   *)
(* the regular expression, join) are computed rather than assumed.         *)
(***************************************************************************)
EXTENDS Integers, Sequences, FiniteSets, TLC

VARIABLES
  mainpc,            \* position of main()
  pc,                \* position of create_index()
  options,           \* main's parsed options and args
  disk,              \* what is stored at options.indexdir
  disk0,             \* what was stored there when create_index was entered
  cryptobib_db,      \* create_index local: the parsed entries, in source order
  formatted_entries, \* create_index local: the formatted entries, in insertion order
  eprint_urls,       \* create_index local: title -> (url, ID)
  written,           \* the documents handed to writer.add_document, in order
  log,               \* the calls made by main, in order (exists with its result)
  all_output,        \* search_index local: per hit, the printed field lines
  id,                \* argument of a direct call of acronyms_from_ID
  acronyms,          \* its return value
  raw,               \* a (field name, raw field text) pair to be formatted
  stored             \* the value the field statement of create_index stores for it

vars == <<mainpc, pc, options, disk, disk0, cryptobib_db, formatted_entries,
          eprint_urls, written, log, all_output, id, acronyms, raw, stored>>

mainVars == <<mainpc, options, log, all_output>>
buildVars == <<pc, disk, disk0, cryptobib_db, formatted_entries, eprint_urls, written>>
acrVars == <<id, acronyms>>
normVars == <<raw, stored>>

----------------------------------------------------------------------------
(* Bounds *)

MaxKeyLen == 4
MaxTextLen == 3
MaxEntries == 3

----------------------------------------------------------------------------
(* Characters and text *)

Upper == {"A", "B", "C", "D", "E", "F", "G", "H", "I", "J", "K", "L", "M",
          "N", "O", "P", "Q", "R", "S", "T", "U", "V", "W", "X", "Y", "Z"}
Digit == {"0", "1", "2", "3", "4", "5", "6", "7", "8", "9"}
YearLetter == {"a", "b", "c", "d", "e", "f", "g", "h"}

\* Python's None where a text is expected; a match of \d+... is never empty
None == <<>>

Min(S) == CHOOSE x \in S : \A y \in S : x <= y
Max(S) == CHOOSE x \in S : \A y \in S : x >= y

\* the texts over alphabet A of length at most n
TextsUpTo(A, n) == UNION {[1..k -> A] : k \in 0..n}

\* s[i:] for a 1-based i
From(s, i) == SubSeq(s, i, Len(s))

\* str.startswith
StartsWith(s, p) == Len(s) >= Len(p) /\ SubSeq(s, 1, Len(p)) = p

\* sep.join(parts)
RECURSIVE Join(_, _)
Join(parts, sep) ==
  IF parts = <<>> THEN <<>>
  ELSE IF Len(parts) = 1 THEN parts[1]
  ELSE parts[1] \o sep \o Join(Tail(parts), sep)

\* str.split(sep) for a one-character separator
RECURSIVE Split(_, _)
Split(s, sep) ==
  LET at == {i \in 1..Len(s) : s[i] = sep}
  IN IF at = {} THEN <<s>>
     ELSE <<SubSeq(s, 1, Min(at) - 1)>> \o Split(From(s, Min(at) + 1), sep)

----------------------------------------------------------------------------
(* acronyms_from_ID *)

\* the number of consecutive digits of s from position i on
RECURSIVE DigitRun(_, _)
DigitRun(s, i) ==
  IF i <= Len(s) /\ s[i] \in Digit THEN 1 + DigitRun(s, i + 1) ELSE 0

\* whether \d+[abcdefgh]?$ matches s at position i: some number d of the digits
\* there, then the letter or nothing, then the end of s
MatchesAt(s, i) ==
  \E d \in 1..DigitRun(s, i) :
     \/ i + d = Len(s) + 1
     \/ i + d = Len(s) /\ s[i + d] \in YearLetter

\* re.search(r'\d+[abcdefgh]?$', s): the match at the leftmost position that has
\* one (it always extends to the end of s), or None
re_search_year(s) ==
  LET starts == {i \in 1..Len(s) : MatchesAt(s, i)}
  IN IF starts = {} THEN None ELSE From(s, Min(starts))

IsUpper(c) == c \in Upper

acronyms_from_ID_ge2(key) ==
  LET r == Split(key, ":")[Len(Split(key, ":"))]
      year == re_search_year(r)
      initials == SelectSeq(r, IsUpper)
  IN IF year = None THEN <<>>
     ELSE IF Len(initials) >= 2 THEN <<initials, initials \o year>>
     ELSE <<r>>

acronyms_from_ID(key) ==
  LET r == Split(key, ":")[Len(Split(key, ":"))]
      year == re_search_year(r)
      initials == SelectSeq(r, IsUpper)
  IN IF year = None THEN <<>>
     ELSE IF Len(initials) > 2 THEN <<initials, initials \o year>>
     ELSE IF Len(initials) = 2 THEN <<initials \o year>>
     ELSE <<r>>

----------------------------------------------------------------------------
(* create_index: formatting one entry (lines 94-110) *)

BIBTEX_FIELDS == <<"title", "author", "year", "note">>
SchemaFields == {"ID", "title", "author", "year", "note", "bibtex", "acronyms"}
EPRINT == <<"E", "P", "R", "I", "N", "T">>

\* Python's True, as the value of the 'ignore' marker
True == <<"True">>

\* d[k] = v on a dict
SetItem(d, k, v) == [x \in DOMAIN d \cup {k} |-> IF x = k THEN v ELSE d[x]]

\* str.translate with the table {'\n': ' ', '{': None, '}': None}
RECURSIVE translate(_)
translate(s) ==
  IF s = <<>> THEN <<>>
  ELSE LET c == Head(s)
       IN (IF c = "\n" THEN <<" ">>
           ELSE IF c \in {"{", "}"} THEN <<>>
           ELSE <<c>>) \o translate(Tail(s))

\* str.lstrip(chars): drops every leading character that is in chars
RECURSIVE lstrip(_, _)
lstrip(s, chars) ==
  IF s # <<>> /\ Head(s) \in chars THEN lstrip(Tail(s), chars) ELSE s

\* the argument '\\url' of lstrip, as the set of characters it stands for
UrlChars == {"\\", "u", "r", "l"}

\* the value stored for field `key` with raw text `text` (lines 107-108); the
\* same expression is applied whatever the key
format_field(key, text) == lstrip(translate(text), UrlChars)

\* ' '.join(first + middle + prelast + last names) + ', ' for each person
RECURSIVE authors_of(_)
authors_of(persons) ==
  IF persons = <<>> THEN <<>>
  ELSE Join(Head(persons), <<" ">>) \o <<",", " ">> \o authors_of(Tail(persons))

\* authors[:-2]
DropLast2(s) == SubSeq(s, 1, Len(s) - 2)

\* BibliographyData({ID: entry}).to_string('bibtex'): the serialized record,
\* which the program stores as it is
to_string(entry) == <<"@">> \o entry.key

\* the loop over BIBTEX_FIELDS, lines 103-108
RECURSIVE format_fields(_, _, _)
format_fields(entry, fe, keys) ==
  IF keys = <<>> THEN fe
  ELSE LET key == Head(keys)
       IN format_fields(entry,
            IF key \in DOMAIN entry.fields
              THEN SetItem(fe, key, format_field(key, entry.fields[key]))
              ELSE fe,
            Tail(keys))

\* formatted_entry for one entry, lines 94-109
format_entry(entry) ==
  LET fe0 == [k \in {"ID", "bibtex", "author"} |->
                CASE k = "ID" -> entry.key
                  [] k = "bibtex" -> to_string(entry)
                  [] k = "author" -> DropLast2(authors_of(entry.persons))]
      fe1 == format_fields(entry, fe0, BIBTEX_FIELDS)
  IN SetItem(fe1, "acronyms", Join(acronyms_from_ID(entry.key), <<",">>))

----------------------------------------------------------------------------
(* create_index: the two loops (lines 93-126) *)

\* eprint_urls[title] = (url, ID), line 114: a later entry replaces an earlier one
put_eprint_url_first(urls, title, url, ID) ==
  IF title \in DOMAIN urls THEN urls ELSE SetItem(urls, title, [url |-> url, ID |-> ID])

put_eprint_url(urls, title, url, ID) ==
  SetItem(urls, title, [url |-> url, ID |-> ID])

\* the first loop, lines 93-114, over the entries db still to be visited:
\* raised is TRUE when formatted_entry['note'] (line 113) raises KeyError
RECURSIVE loop1(_, _, _)
loop1(db, fes, urls) ==
  IF db = <<>> THEN [raised |-> FALSE, formatted_entries |-> fes, eprint_urls |-> urls]
  ELSE LET entry == Head(db)
           fe == format_entry(entry)
           fes1 == Append(fes, fe)
       IN IF StartsWith(entry.key, EPRINT) /\ "title" \in DOMAIN entry.fields
            THEN IF "note" \notin DOMAIN fe
                   THEN [raised |-> TRUE, formatted_entries |-> fes1, eprint_urls |-> urls]
                   ELSE loop1(Tail(db), fes1,
                              put_eprint_url(urls, fe["title"], fe["note"], entry.key))
            ELSE loop1(Tail(db), fes1, urls)

\* the position in formatted_entries of the entry stored under ID
IndexOfID(fes, ID) == CHOOSE j \in 1..Len(fes) : fes[j]["ID"] = ID

\* formatted_entries[eprint_ID]['ignore'] = True, line 124, from the iteration at i
mark_ignore_self(fes, i, eprint_ID) ==
  [fes EXCEPT ![i] = SetItem(@, "ignore", True)]

mark_ignore(fes, i, eprint_ID) ==
  [fes EXCEPT ![IndexOfID(fes, eprint_ID)] = SetItem(@, "ignore", True)]

\* the second loop, lines 116-126, from position i on: docs are the documents
\* handed to writer.add_document so far
RECURSIVE loop2(_, _, _, _)
loop2(fes, urls, i, docs) ==
  IF i > Len(fes) THEN [formatted_entries |-> fes, written |-> docs]
  ELSE LET entry == fes[i]
           merge == /\ ~StartsWith(entry["ID"], EPRINT)
                    /\ "title" \in DOMAIN entry
                    /\ entry["title"] \in DOMAIN urls
           fes1 == IF merge
                     THEN mark_ignore(
                            [fes EXCEPT ![i] = SetItem(@, "note", urls[entry["title"]].url)],
                            i, urls[entry["title"]].ID)
                     ELSE fes
       IN loop2(fes1, urls, i + 1,
                IF "ignore" \notin DOMAIN fes1[i] THEN Append(docs, fes1[i]) ELSE docs)

----------------------------------------------------------------------------
(* The bibliographies the parser may return *)

EprintA == <<"E", "P", "R", "I", "N", "T", ":", "F", "1">>
EprintB == <<"E", "P", "R", "I", "N", "T", ":", "G", "2">>
PubA == <<"C", ":", "F", "1">>
PubB == <<"C", ":", "G", "H", "S", "1", "2">>
KeyPool == {EprintA, EprintB, PubA, PubB}

\* "{X}" and "X" are different raw titles with the same stored title
Titles == {<<"X">>, <<"{", "X", "}">>, <<"Y">>}
YearText == <<"2", "0", "1", "2">>
\* every entry that has a note has one of its own: \url{<key>}
NoteOf(key) == <<"\\", "u", "r", "l", "{">> \o key \o <<"}">>

\* a person is the list first + middle + prelast + last of its name parts
Person1 == << <<"A">>, <<"B">> >>
Person2 == << <<"C">> >>
AuthorChoices == {<<>>, <<Person1>>, <<Person1, Person2>>}

MkFields(dom, key, title) ==
  [f \in dom |-> CASE f = "title" -> title
                  [] f = "note" -> NoteOf(key)
                  [] f = "year" -> YearText]

\* entries with any subset of title, note, year and zero, one or two authors
FullEntries ==
  {[key |-> k, persons |-> a, fields |-> MkFields(dom, k, t)] :
     k \in KeyPool, a \in AuthorChoices,
     dom \in SUBSET {"title", "note", "year"}, t \in Titles}

\* entries with a year and one author, and any subset of title and note; a
\* preprint's title is written "{X}" and a published entry's "X", so that two
\* entries share a stored title with different raw texts ("X") or with the
\* same raw text ("Y")
MergeEntries ==
  {e \in FullEntries :
     /\ e.persons = <<Person1>>
     /\ "year" \in DOMAIN e.fields
     /\ "title" \in DOMAIN e.fields =>
          e.fields["title"] # (IF StartsWith(e.key, EPRINT) THEN <<"X">> ELSE <<"{", "X", "}">>)}

\* the sequences of at most n entries of E with pairwise different keys (the
\* parser rejects a repeated key)
RECURSIVE SourcesUpTo(_, _)
SourcesUpTo(E, n) ==
  IF n = 0 THEN {<<>>}
  ELSE LET shorter == SourcesUpTo(E, n - 1)
       IN shorter \cup
          {Append(src, e) : <<src, e>> \in
             {p \in shorter \X E : \A i \in 1..Len(p[1]) : p[1][i].key # p[2].key}}

BuildSources ==
  SourcesUpTo(MergeEntries, MaxEntries) \cup {<<e>> : e \in FullEntries}
MainSources == {<<>>} \cup {<<e>> : e \in FullEntries}

\* what options.indexdir may hold
NoDir == [dir |-> FALSE, index |-> FALSE, docs |-> <<>>]
EmptyDir == [dir |-> TRUE, index |-> FALSE, docs |-> <<>>]
Index(docs) == [dir |-> TRUE, index |-> TRUE, docs |-> docs]

\* the documents create_index commits for the source db (when line 113 does not raise)
docs_of(db) ==
  LET r == loop1(db, <<>>, <<>>)
  IN loop2(r.formatted_entries, r.eprint_urls, 1, <<>>).written

PriorSource ==
  <<[key |-> PubB, persons |-> <<Person1>>,
     fields |-> MkFields({"title", "year"}, PubB, <<"Y">>)]>>
PriorIndex == Index(docs_of(PriorSource))

----------------------------------------------------------------------------
(* create_index, lines 74-128 *)

Errors == {"FileNotFoundError", "PybtexError", "KeyError", "CommitError"}

\* index.create_in(indexdir, schema), line 77: a new, empty index replaces
\* whatever the directory held
create_in ==
  /\ pc = "create_in"
  /\ disk.dir
  /\ disk0' = disk
  /\ disk' = Index(<<>>)
  /\ pc' = "open"
  /\ UNCHANGED <<cryptobib_db, formatted_entries, eprint_urls, written>>
  /\ UNCHANGED <<mainVars, acrVars, normVars>>

\* lines 81-82: both files are read and joined into tmp.bib
open_files ==
  /\ pc = "open"
  /\ pc' = "parse_file"
  /\ UNCHANGED <<disk, disk0, cryptobib_db, formatted_entries, eprint_urls, written>>
  /\ UNCHANGED <<mainVars, acrVars, normVars>>

\* line 81: abbrev3.bib or the bibliography is missing or unreadable
open_files_raises ==
  /\ pc = "open"
  /\ pc' = "FileNotFoundError"
  /\ UNCHANGED <<disk, disk0, cryptobib_db, formatted_entries, eprint_urls, written>>
  /\ UNCHANGED <<mainVars, acrVars, normVars>>

\* line 86: the parser returns the entries, one of Sources
parse_file(Sources) ==
  /\ pc = "parse_file"
  /\ \E db \in Sources : cryptobib_db' = db
  /\ pc' = "loop1"
  /\ UNCHANGED <<disk, disk0, formatted_entries, eprint_urls, written>>
  /\ UNCHANGED <<mainVars, acrVars, normVars>>

\* line 86: the parser rejects a record
parse_file_raises ==
  /\ pc = "parse_file"
  /\ pc' = "PybtexError"
  /\ UNCHANGED <<disk, disk0, cryptobib_db, formatted_entries, eprint_urls, written>>
  /\ UNCHANGED <<mainVars, acrVars, normVars>>

\* lines 89-114: the first loop runs to its end
first_loop ==
  /\ pc = "loop1"
  /\ LET r == loop1(cryptobib_db, <<>>, <<>>)
     IN /\ ~r.raised
        /\ formatted_entries' = r.formatted_entries
        /\ eprint_urls' = r.eprint_urls
  /\ pc' = "loop2"
  /\ UNCHANGED <<disk, disk0, cryptobib_db, written>>
  /\ UNCHANGED <<mainVars, acrVars, normVars>>

\* line 113 raises KeyError: 'note'
first_loop_raises ==
  /\ pc = "loop1"
  /\ LET r == loop1(cryptobib_db, <<>>, <<>>)
     IN /\ r.raised
        /\ formatted_entries' = r.formatted_entries
        /\ eprint_urls' = r.eprint_urls
  /\ pc' = "KeyError"
  /\ UNCHANGED <<disk, disk0, cryptobib_db, written>>
  /\ UNCHANGED <<mainVars, acrVars, normVars>>

\* lines 116-126
second_loop ==
  /\ pc = "loop2"
  /\ LET r == loop2(formatted_entries, eprint_urls, 1, <<>>)
     IN /\ formatted_entries' = r.formatted_entries
        /\ written' = r.written
  /\ pc' = "commit"
  /\ UNCHANGED <<disk, disk0, cryptobib_db, eprint_urls>>
  /\ UNCHANGED <<mainVars, acrVars, normVars>>

\* writer.commit(), line 127, and the return
commit ==
  /\ pc = "commit"
  /\ disk' = Index(written)
  /\ pc' = "returned"
  /\ UNCHANGED <<disk0, cryptobib_db, formatted_entries, eprint_urls, written>>
  /\ UNCHANGED <<mainVars, acrVars, normVars>>

\* writer.commit() fails: nothing of the writer becomes part of the index
commit_raises ==
  /\ pc = "commit"
  /\ pc' = "CommitError"
  /\ UNCHANGED <<disk, disk0, cryptobib_db, formatted_entries, eprint_urls, written>>
  /\ UNCHANGED <<mainVars, acrVars, normVars>>

create_index(Sources) ==
  \/ create_in
  \/ open_files
  \/ open_files_raises
  \/ parse_file(Sources)
  \/ parse_file_raises
  \/ first_loop
  \/ first_loop_raises
  \/ second_loop
  \/ commit
  \/ commit_raises

\* a direct call create_index(cryptobib, indexdir) on a directory that holds an index
InitBuild ==
  /\ mainpc = "idle"
  /\ pc = "create_in"
  /\ options = [update |-> TRUE, query |-> FALSE, bibtex |-> FALSE]
  /\ disk = PriorIndex
  /\ disk0 = disk
  /\ cryptobib_db = <<>>
  /\ formatted_entries = <<>>
  /\ eprint_urls = <<>>
  /\ written = <<>>
  /\ log = <<>>
  /\ all_output = <<>>
  /\ id = <<>>
  /\ acronyms = <<>>
  /\ raw = [field |-> "title", text |-> <<>>]
  /\ stored = <<>>

NextBuild == create_index(BuildSources)

SpecBuild == InitBuild /\ [][NextBuild]_vars

----------------------------------------------------------------------------
(* search_index, lines 168-203 *)

\* the keys of hit.fields(), in their order: the index stores the fields of a
\* document by sorted field name
StoredOrder == <<"ID", "acronyms", "author", "bibtex", "note", "title", "year">>

hit_fields(hit) ==
  LET Has(f) == f \in DOMAIN hit
  IN SelectSeq(StoredOrder, Has)

\* line 194: field != next(reversed(hit.fields().keys()))
trailing_comma(hit, field) ==
  field # hit_fields(hit)[Len(hit_fields(hit))]

\* lines 183-200 for one hit: the key, one line per field other than ID and
\* bibtex (highlighting and wrapping leave the text and its order as they are),
\* and the raw record when asked for
render_hit(hit, outputbibtex) ==
  LET Printed(f) == f \notin {"ID", "bibtex"}
      fields == SelectSeq(hit_fields(hit), Printed)
  IN [ID |-> hit["ID"],
      lines |-> [i \in 1..Len(fields) |->
                   [field |-> fields[i],
                    output |-> hit[fields[i]] \o
                      (IF trailing_comma(hit, fields[i]) THEN <<",">> ELSE <<>>)]],
      bibtex |-> IF outputbibtex THEN hit["bibtex"] ELSE <<>>]

\* the documents of docs at the positions in sel, in their order
RECURSIVE Pick(_, _, _)
Pick(docs, sel, i) ==
  IF i > Len(docs) THEN <<>>
  ELSE (IF i \in sel THEN <<docs[i]>> ELSE <<>>) \o Pick(docs, sel, i + 1)

\* the text handed to the pager for the hits of a query: the query decides
\* which documents of the index are hits
search_index(idx, hits, outputbibtex) ==
  LET results == Pick(idx.docs, hits, 1)
  IN [i \in 1..Len(results) |-> render_hit(results[i], outputbibtex)]

----------------------------------------------------------------------------
(* main, lines 205-238 *)

\* line 230
rebuild_condition_flag_only == options.update

rebuild_condition == ~disk.dir \/ options.update

\* os.path.exists(options.indexdir), line 230, as main's log records it
exists_call == IF disk.dir THEN <<"exists: True">> ELSE <<"exists: False">>

\* lines 226-228
main_usage ==
  /\ mainpc = "start"
  /\ ~options.query /\ ~options.update
  /\ log' = Append(log, "print_help")
  /\ mainpc' = "done"
  /\ UNCHANGED <<options, all_output, buildVars, acrVars, normVars>>

\* lines 230-233: the directory is made when missing and create_index is called
main_rebuild ==
  /\ mainpc = "start"
  /\ options.query \/ options.update
  /\ rebuild_condition
  /\ disk' = [disk EXCEPT !.dir = TRUE]
  /\ log' = log \o exists_call \o (IF disk.dir THEN <<>> ELSE <<"mkdir">>)
                 \o <<"create_index">>
  /\ mainpc' = "create_index"
  /\ pc' = "create_in"
  /\ UNCHANGED <<options, all_output, disk0, cryptobib_db, formatted_entries,
                 eprint_urls, written, acrVars, normVars>>

\* create_index returns idx: its locals are gone
main_rebuilt ==
  /\ mainpc = "create_index"
  /\ pc = "returned"
  /\ log' = Append(log, "create_index returned")
  /\ mainpc' = "query"
  /\ pc' = "idle"
  /\ cryptobib_db' = <<>>
  /\ formatted_entries' = <<>>
  /\ eprint_urls' = <<>>
  /\ written' = <<>>
  /\ UNCHANGED <<options, all_output, disk, disk0, acrVars, normVars>>

\* create_index raises: nothing catches it
main_rebuild_raises ==
  /\ mainpc = "create_index"
  /\ pc \in Errors
  /\ mainpc' = "raised"
  /\ cryptobib_db' = <<>>
  /\ formatted_entries' = <<>>
  /\ eprint_urls' = <<>>
  /\ written' = <<>>
  /\ UNCHANGED <<options, log, all_output, pc, disk, disk0, acrVars, normVars>>

\* line 235: index.open_dir on a directory that holds an index
main_open ==
  /\ mainpc = "start"
  /\ options.query \/ options.update
  /\ ~rebuild_condition
  /\ disk.index
  /\ log' = log \o exists_call \o <<"open_dir">>
  /\ mainpc' = "query"
  /\ UNCHANGED <<options, all_output, buildVars, acrVars, normVars>>

\* line 235: index.open_dir on a directory that holds none
main_open_raises ==
  /\ mainpc = "start"
  /\ options.query \/ options.update
  /\ ~rebuild_condition
  /\ ~disk.index
  /\ log' = log \o exists_call \o <<"open_dir">>
  /\ mainpc' = "raised"
  /\ UNCHANGED <<options, all_output, buildVars, acrVars, normVars>>

\* lines 236-238 with a query
main_search ==
  /\ mainpc = "query"
  /\ options.query
  /\ \E hits \in SUBSET (1..Len(disk.docs)) :
       all_output' = search_index(disk, hits, options.bibtex)
  /\ log' = Append(log, "search_index")
  /\ mainpc' = "done"
  /\ UNCHANGED <<options, buildVars, acrVars, normVars>>

\* lines 236-238 without one
main_no_search ==
  /\ mainpc = "query"
  /\ ~options.query
  /\ mainpc' = "done"
  /\ UNCHANGED <<options, log, all_output, buildVars, acrVars, normVars>>

main ==
  \/ main_usage
  \/ main_rebuild
  \/ main_rebuilt
  \/ main_rebuild_raises
  \/ main_open
  \/ main_open_raises
  \/ main_search
  \/ main_no_search

Init ==
  /\ mainpc = "start"
  /\ pc = "idle"
  /\ options \in [update : BOOLEAN, query : BOOLEAN, bibtex : BOOLEAN]
  /\ disk \in {NoDir, EmptyDir, Index(<<>>), PriorIndex}
  /\ disk0 = disk
  /\ cryptobib_db = <<>>
  /\ formatted_entries = <<>>
  /\ eprint_urls = <<>>
  /\ written = <<>>
  /\ log = <<>>
  /\ all_output = <<>>
  /\ id = <<>>
  /\ acronyms = <<>>
  /\ raw = [field |-> "title", text |-> <<>>]
  /\ stored = <<>>

Next == main \/ create_index(MainSources)

Spec == Init /\ [][Next]_vars

----------------------------------------------------------------------------
(* Direct calls of acronyms_from_ID and of the field statement *)

KeyAlphabet == {":", "G", "S", "a", "o", "1", "2"}
ExampleKeys ==
  {<<"C", ":", "G", "e", "n", "H", "a", "l", "S", "m", "a", "1", "2">>,
   <<"C", ":", "G", "r", "o", "t", "h", "1", "6">>,
   <<"N", "o", "D", "i", "g", "i", "t", "s", "H", "e", "r", "e">>}

InitAcr ==
  /\ mainpc = "idle"
  /\ pc = "acronyms_from_ID"
  /\ options = [update |-> FALSE, query |-> FALSE, bibtex |-> FALSE]
  /\ disk = NoDir
  /\ disk0 = disk
  /\ cryptobib_db = <<>>
  /\ formatted_entries = <<>>
  /\ eprint_urls = <<>>
  /\ written = <<>>
  /\ log = <<>>
  /\ all_output = <<>>
  /\ id \in TextsUpTo(KeyAlphabet, MaxKeyLen) \cup ExampleKeys \cup KeyPool
  /\ acronyms = <<>>
  /\ raw = [field |-> "title", text |-> <<>>]
  /\ stored = <<>>

call_acronyms_from_ID ==
  /\ pc = "acronyms_from_ID"
  /\ acronyms' = acronyms_from_ID(id)
  /\ pc' = "returned"
  /\ UNCHANGED <<id, mainVars, disk, disk0, cryptobib_db, formatted_entries,
                 eprint_urls, written, normVars>>

NextAcr == call_acronyms_from_ID

SpecAcr == InitAcr /\ [][NextAcr]_vars

TextAlphabet == {"\\", "u", "r", "l", "{", "}", "\n", "X"}
ExampleTexts ==
  {<<"{", "F", "o", "o", "}", " ", "B", "a", "r", "\n", " ", "B", "a", "z">>,
   <<"\\", "u", "r", "l", "{", "u", "r", "l", ".", "X", "}">>,
   <<"\\", "u", "r", "l", "{", "X", "}">>}

InitField ==
  /\ mainpc = "idle"
  /\ pc = "format_field"
  /\ options = [update |-> FALSE, query |-> FALSE, bibtex |-> FALSE]
  /\ disk = NoDir
  /\ disk0 = disk
  /\ cryptobib_db = <<>>
  /\ formatted_entries = <<>>
  /\ eprint_urls = <<>>
  /\ written = <<>>
  /\ log = <<>>
  /\ all_output = <<>>
  /\ id = <<>>
  /\ acronyms = <<>>
  /\ raw \in [field : {"title", "year", "note"},
              text : TextsUpTo(TextAlphabet, MaxTextLen) \cup ExampleTexts]
  /\ stored = <<>>

call_format_field ==
  /\ pc = "format_field"
  /\ stored' = format_field(raw.field, raw.text)
  /\ pc' = "returned"
  /\ UNCHANGED <<raw, mainVars, disk, disk0, cryptobib_db, formatted_entries,
                 eprint_urls, written, acrVars>>

NextField == call_format_field

SpecField == InitField /\ [][NextField]_vars

----------------------------------------------------------------------------
(* C3: acronyms_from_ID against the specified algorithm *)

\* R: what follows the last ':' of the key
SpecRest(key) ==
  LET colons == {i \in 1..Len(key) : key[i] = ":"}
  IN IF colons = {} THEN key ELSE From(key, Max(colons) + 1)

\* t is a run of digits, optionally followed by one letter a-h
IsYearSuffix(t) ==
  \E k \in 1..Len(t) :
     /\ \A i \in 1..k : t[i] \in Digit
     /\ k = Len(t) \/ (k = Len(t) - 1 /\ t[Len(t)] \in YearLetter)

\* the result the specified algorithm gives for key
SpecAcronyms(key) ==
  LET R == SpecRest(key)
      suffixes == {i \in 1..Len(R) : IsYearSuffix(From(R, i))}
      Y == From(R, Min(suffixes))
      I == SelectSeq(R, IsUpper)
  IN IF suffixes = {} THEN <<>>
     ELSE IF Len(I) > 2 THEN <<I, I \o Y>>
     ELSE IF Len(I) = 2 THEN <<I \o Y>>
     ELSE <<R>>

GenHalSma12 == <<"C", ":", "G", "e", "n", "H", "a", "l", "S", "m", "a", "1", "2">>
Groth16 == <<"C", ":", "G", "r", "o", "t", "h", "1", "6">>
NoDigitsHere == <<"N", "o", "D", "i", "g", "i", "t", "s", "H", "e", "r", "e">>

\* C3: for every key, acronyms_from_ID returns what the specified algorithm
\* gives: [] without a year suffix, else [I, I+Y], [I+Y] or [R] as the key has
\* more than two, two or fewer than two upper-case letters; and the three
\* examples of the specification give their stated results.
C3_AcronymsAsSpecified ==
  pc = "returned" =>
     /\ acronyms = SpecAcronyms(id)
     /\ id = GenHalSma12 =>
          acronyms = << <<"G", "H", "S">>, <<"G", "H", "S", "1", "2">> >>
     /\ id = Groth16 => acronyms = << <<"G", "r", "o", "t", "h", "1", "6">> >>
     /\ id = NoDigitsHere => acronyms = <<>>

C3_Witness ==
  /\ pc = "returned"
  /\ id = GenHalSma12
  /\ acronyms = << <<"G", "H", "S">>, <<"G", "H", "S", "1", "2">> >>

----------------------------------------------------------------------------
(* C6: the order of rebuild, open and search in main *)

InLog(e) == \E i \in 1..Len(log) : log[i] = e
Before(e1, e2) == \E i, j \in 1..Len(log) : i < j /\ log[i] = e1 /\ log[j] = e2

\* C6: without a query and without the rebuild flag main prints the usage and
\* does nothing else; with the flag set or the directory missing, no index is
\* opened, a search happens only after create_index has returned and only when
\* a query was given; with the directory there and the flag not set, the index
\* is opened and searched and nothing is rebuilt.
C6_MainOrder ==
  /\ (~options.query /\ ~options.update) =>
       /\ log \in {<<>>, <<"print_help">>}
       /\ pc = "idle"
       /\ mainpc = "done" => log = <<"print_help">>
  /\ InLog("print_help") => ~options.query /\ ~options.update
  /\ ((options.query \/ options.update) /\ log # <<>>
        /\ (options.update \/ log[1] = "exists: False")) =>
       /\ ~InLog("open_dir")
       /\ InLog("search_index") =>
            options.query /\ Before("create_index returned", "search_index")
       /\ mainpc = "done" =>
            /\ Before("create_index", "create_index returned")
            /\ InLog("search_index") <=> options.query
  /\ ((options.query \/ options.update) /\ log # <<>>
        /\ ~options.update /\ log[1] = "exists: True") =>
       /\ ~InLog("create_index") /\ ~InLog("mkdir")
       /\ pc = "idle"
       /\ mainpc = "done" => log = <<"exists: True", "open_dir", "search_index">>

C6_Witness ==
  /\ mainpc = "done"
  /\ ~options.update
  /\ log = <<"exists: False", "mkdir", "create_index", "create_index returned",
             "search_index">>

----------------------------------------------------------------------------
(* C1, C7, C10, C4, C9: the documents create_index writes *)

IsPreprint(e) == StartsWith(e.key, EPRINT)
HasTitle(e) == "title" \in DOMAIN e.fields
Entries == 1..Len(cryptobib_db)
\* the preprints of the source whose stored title is that of entry p
PreprintsLike(p) ==
  {i \in Entries :
     /\ IsPreprint(cryptobib_db[i]) /\ HasTitle(cryptobib_db[i])
     /\ format_entry(cryptobib_db[i])["title"] = format_entry(cryptobib_db[p])["title"]}
Published == {p \in Entries : ~IsPreprint(cryptobib_db[p]) /\ HasTitle(cryptobib_db[p])}
DocsOf(docs, key) == {j \in 1..Len(docs) : docs[j]["ID"] = key}

\* C1 (as claimed): after the commit, for a published entry and the one preprint
\* with its stored title (with a note), in either order, the index holds the
\* published entry's document with the preprint's note and no document of the
\* preprint.
C1_MergedInEitherOrder ==
  pc = "returned" =>
    \A p \in Published : \A e \in PreprintsLike(p) :
       (PreprintsLike(p) = {e} /\ "note" \in DOMAIN cryptobib_db[e].fields) =>
         /\ \E j \in DocsOf(disk.docs, cryptobib_db[p].key) :
               /\ "note" \in DOMAIN disk.docs[j]
               /\ disk.docs[j]["note"] = format_entry(cryptobib_db[e])["note"]
         /\ DocsOf(disk.docs, cryptobib_db[e].key) = {}

\* C7: when several preprints have the stored title of a published entry, the
\* published document's note is that of the last of them in source order, only
\* that one is marked 'ignore', and each earlier one is written as its own
\* document, as formatted, with its own note.
C7_LastPreprintWins ==
  pc \in {"commit", "returned"} =>
    \A p \in Published :
       LET E == PreprintsLike(p)
       IN Cardinality(E) >= 2 =>
            /\ \E j \in DocsOf(written, cryptobib_db[p].key) :
                  written[j]["note"] = format_entry(cryptobib_db[Max(E)])["note"]
            /\ \A e \in E : ("ignore" \in DOMAIN formatted_entries[e]) <=> (e = Max(E))
            /\ \A e \in E \ {Max(E)} :
                  \E j \in DocsOf(written, cryptobib_db[e].key) :
                     /\ written[j] = format_entry(cryptobib_db[e])
                     /\ written[j]["note"] =
                          format_field("note", cryptobib_db[e].fields["note"])

C7_Witness ==
  /\ pc = "returned"
  /\ \E p \in Published :
       /\ Cardinality(PreprintsLike(p)) >= 2
       /\ \A e \in PreprintsLike(p) : e < p => DocsOf(disk.docs, cryptobib_db[e].key) # {}
       /\ \E e \in PreprintsLike(p) : e < p
       /\ \E e \in PreprintsLike(p) : p < e

\* C10: after a successful create_index every entry that is no preprint has
\* exactly one document, no key has two, only preprints are marked 'ignore',
\* and no document carries 'ignore' or any field outside the schema.
C10_DocumentsOfIndex ==
  pc = "returned" =>
    /\ \A i \in Entries :
         ~IsPreprint(cryptobib_db[i]) =>
            Cardinality(DocsOf(disk.docs, cryptobib_db[i].key)) = 1
    /\ \A j, k \in 1..Len(disk.docs) :
         disk.docs[j]["ID"] = disk.docs[k]["ID"] => j = k
    /\ \A i \in Entries :
         "ignore" \in DOMAIN formatted_entries[i] => IsPreprint(cryptobib_db[i])
    /\ \A j \in 1..Len(disk.docs) : DOMAIN disk.docs[j] \subseteq SchemaFields

C10_Witness ==
  /\ pc = "returned"
  /\ Len(cryptobib_db) = MaxEntries
  /\ \E i \in Entries : "ignore" \in DOMAIN formatted_entries[i]
  /\ Len(disk.docs) = MaxEntries - 1

\* C4 (as claimed): a document handed to the writer has no title, year or author
\* that its entry lacks, a note that its entry lacks only as the note copied
\* from a preprint, and never the empty string as one of these fields.
C4_AbsentFieldsOmitted ==
  pc \in {"commit", "returned"} =>
    \A j \in 1..Len(written) : \A i \in Entries :
       cryptobib_db[i].key = written[j]["ID"] =>
         /\ \A f \in {"title", "year"} :
              f \notin DOMAIN cryptobib_db[i].fields => f \notin DOMAIN written[j]
         /\ cryptobib_db[i].persons = <<>> => "author" \notin DOMAIN written[j]
         /\ ("note" \notin DOMAIN cryptobib_db[i].fields /\ "note" \in DOMAIN written[j]) =>
              i \in Published /\ PreprintsLike(i) # {}
         /\ \A f \in {"title", "author", "year", "note"} \cap DOMAIN written[j] :
              written[j][f] # <<>>

\* C9 (as claimed): create_index never aborts on a parsed source: line 113
\* raises no KeyError.
C9_BuildCompletes == pc # "KeyError"

----------------------------------------------------------------------------
(* C2: a failed rebuild and the index *)

\* C2 (as claimed): when create_index fails, an index that was at the target
\* location still is, with its documents.
C2_FailureKeepsIndex ==
  (pc \in Errors /\ disk0.index) => disk = disk0

----------------------------------------------------------------------------
(* C5: the stored value of a field *)

\* every newline replaced by one space, every brace deleted
SpecStripped(text) ==
  LET NoBrace(c) == c \notin {"{", "}"}
      kept == SelectSeq(text, NoBrace)
  IN [i \in 1..Len(kept) |-> IF kept[i] = "\n" THEN " " ELSE kept[i]]

UrlMarker == <<"\\", "u", "r", "l">>

SpecStored(field, text) ==
  LET t == SpecStripped(text)
  IN IF field = "note" /\ StartsWith(t, UrlMarker) THEN From(t, Len(UrlMarker) + 1) ELSE t

\* C5 (as claimed): the stored title and year are the raw text with newlines
\* replaced and braces deleted and nothing else changed; the stored note is
\* that with one leading \url removed.
C5_StoredAsSpecified ==
  pc = "returned" => stored = SpecStored(raw.field, raw.text)

----------------------------------------------------------------------------
(* C8: the commas of a printed result *)

EndsWithComma(s) == s # <<>> /\ s[Len(s)] = ","

\* C8 (as claimed): of the fields printed for a result, each but the last ends
\* with a comma and the last does not.
C8_CommaButLast ==
  \A h \in 1..Len(all_output) :
     \A i \in 1..Len(all_output[h].lines) :
        EndsWithComma(all_output[h].lines[i].output) <=> (i < Len(all_output[h].lines))

====
